---- MODULE Spec2Model ----
(***************************************************************************)
(* State-machine model of the Claude API proxy (ClaudeProxy.sendMessage,   *)
(* its interceptor pipelines, the p-retry loop around the upstream call,   *)
(* the built-in interceptors of interceptors.ts and the POST /message      *)
(* route).  JavaScript runs one task at a time: a step of the model is the *)
(* synchronous code between two awaits.                                    *)
(***************************************************************************)
EXTENDS Integers, Sequences, FiniteSets, TLC

\* ------------------------------------------------------------------ bounds
MaxCalls == 2        \* sendMessage calls per behaviour
MaxOps == 2          \* add/remove interceptor operations per behaviour
MaxTime == 2         \* the clock (Date.now()) runs 0..MaxTime
MaxTimedCalls == 1   \* sendMessage calls per behaviour of SpecClock
MaxRetriesCfg == 1   \* the constructor is given maxRetries in 0..MaxRetriesCfg
MaxLoads == 2        \* loadEnvironment / getConfig calls per behaviour
MaxDbOps == 4        \* calls of initialize, getPool, transaction and shutdown
MaxBackoffRetries == 5   \* ... in 1..MaxBackoffRetries where the waits are studied
TtlTicks == 1        \* ttlMs handed to createSimpleCacheInterceptor

\* ------------------------------------------------------- program constants
DefaultMaxRetries == 3
DefaultModel == "claude-3-sonnet-20240229"
DefaultMaxTokens == 4096
\* calculateCost: dollars per million input and output tokens.
TokensPerMillion == 1000000
InputPricePerMillion == 3
OutputPricePerMillion == 15
RetryableStatusCodes == {429, 500, 502, 503, 504}

Calls == 1..MaxCalls

\* JavaScript's undefined for string-valued fields.  A numeric field that the
\* code only tests for truthiness (max_tokens, statusCode) holds 0 for
\* undefined: 0 and undefined take the same branch everywhere it is read.
Unset == "undefined"

\* ---------------------------------------------------------------- requests
\* A JavaScript object is the sequence of its members, <<name, value>>, in the
\* order they were inserted: the order Object.keys and JSON.stringify walk.
\* A MessageParam whose role was written first, and one whose content was.
UserMessage(text) == <<(<<"role", "user">>), (<<"content", text>>)>>

UserMessageContentFirst(text) == <<(<<"content", text>>), (<<"role", "user">>)>>

\* ClaudeRequest values handed to sendMessage.  temperature is a number,
\* written by its digits ("0.5") so that NaN and Infinity can be written too.
Requests ==
  { [messages |-> <<UserMessage("hi")>>, model |-> Unset, max_tokens |-> 0,
     temperature |-> Unset, system |-> Unset, metadata |-> "m1"],
    [messages |-> <<>>, model |-> Unset, max_tokens |-> 0,
     temperature |-> Unset, system |-> Unset, metadata |-> "m1"] }

\* A request that names its model, one the pricing of calculateCost was not
\* written for.
RequestsWithModel ==
  { [messages |-> <<UserMessage("hi")>>, model |-> "claude-3-opus-20240229",
     max_tokens |-> 0,
     temperature |-> Unset, system |-> Unset, metadata |-> "m1"] }

\* Requests that set max_tokens, below and above the ceiling of the
\* token-limit interceptor.
RequestsWithMaxTokens ==
  { [messages |-> <<UserMessage("hi")>>, model |-> Unset, max_tokens |-> n,
     temperature |-> Unset, system |-> Unset, metadata |-> "m1"] : n \in {500, 5000} }

NoRequest ==
  [messages |-> <<>>, model |-> Unset, max_tokens |-> 0,
   temperature |-> Unset, system |-> Unset, metadata |-> Unset]

\* --------------------------------------------------------------- responses
NoId == [ts |-> 0, n |-> 0]

\* proxyMetrics: undefined (present = FALSE) when the metrics are disabled.
\* cost is in millionths of a dollar, so that the division by 1_000_000 of
\* calculateCost is exact.
NoMetrics ==
  [present |-> FALSE, requestId |-> NoId, latencyMs |-> 0, overheadMs |-> 0,
   tokensUsed |-> 0, cost |-> 0, cacheHit |-> FALSE, retryCount |-> 0]

\* The usage member of a Message; present = FALSE: the payload has none.
NoUsage == [present |-> FALSE, input_tokens |-> 0, output_tokens |-> 0]

Usage(i, o) == [present |-> TRUE, input_tokens |-> i, output_tokens |-> o]

\* Payloads the upstream client resolves with (Message of the SDK).
Payloads ==
  { [id |-> "msg_1", content |-> <<"text">>, stop_reason |-> "end_turn",
     usage |-> Usage(10, 20)],
    [id |-> "msg_2", content |-> <<>>, stop_reason |-> "end_turn",
     usage |-> NoUsage] }

\* A payload whose generation ended on a stop sequence: the one cache-store
\* does not store.
StopSequencePayloads ==
  { [id |-> "msg_3", content |-> <<"text">>, stop_reason |-> "stop_sequence",
     usage |-> Usage(10, 20)] }

NoPayload == [id |-> "", content |-> <<>>, stop_reason |-> Unset, usage |-> NoUsage]

NoResponse ==
  [id |-> "", content |-> <<>>, stop_reason |-> Unset, usage |-> NoUsage,
   proxyMetrics |-> NoMetrics]

\* Status codes carried by the errors the upstream client rejects with
\* (0: the error has no statusCode).
UpstreamStatuses == {429, 503, 400, 0}

\* lastStatus of a call whose last attempt did not fail.
NoFailure == -1

\* retryCount of an error: ProxyError declares no such member and nothing in
\* sendMessage sets one, so every error has it undefined.
NoCount == -1

NoError ==
  [message |-> "", statusCode |-> 0, retryable |-> Unset, requestId |-> NoId,
   retryCount |-> NoCount, cachedResponse |-> NoResponse]

\* ------------------------------------------------------------ interceptors
\* An interceptor object: its name, and an `optional` mark that the caller may
\* put on the object.  The behaviour of execute is decided by the name.
RequestInterceptorPool ==
  { [name |-> "cache-check", optional |-> FALSE],
    [name |-> "custom", optional |-> FALSE],
    [name |-> "custom-optional", optional |-> TRUE] }

ResponseInterceptorPool ==
  { [name |-> "cache-store", optional |-> FALSE],
    [name |-> "response-validation", optional |-> FALSE] }

InterceptorNames ==
  {i.name : i \in RequestInterceptorPool \cup ResponseInterceptorPool}

Names(s) == [k \in 1..Len(s) |-> s[k].name]

VARIABLES
  config,                \* this.config (the retry part)
  requestInterceptors,   \* this.requestInterceptors
  responseInterceptors,  \* this.responseInterceptors
  requestCount,          \* this.requestCount
  cache,                 \* the Map inside createSimpleCacheInterceptor
  now,                   \* Date.now()
  calls,                 \* per sendMessage call: its position and locals
  opsUsed,               \* add/remove operations performed so far
  probe,                 \* a direct use of a helper function: arguments, result
  processEnv,            \* process.env (the settings the configuration reads)
  configManager,         \* the ConfigManager singleton and its calls so far
  db                     \* the DatabaseManager singleton and its calls so far

\* The modules beside the proxy.
aside == <<processEnv, configManager, db>>

vars ==
  <<config, requestInterceptors, responseInterceptors, requestCount, cache,
    now, calls, opsUsed, probe, processEnv, configManager, db>>

\* -------------------------------------------------------------- constructor
\* maxRetries: config.maxRetries || 3 (0 and undefined both give the default).
ResolveMaxRetries(given) == IF given = 0 THEN DefaultMaxRetries ELSE given

\* No direct use of calculateCost is under way.
NoProbe == [done |-> FALSE, usage |-> NoUsage, cost |-> 0]

\* enableMetrics: config.enableMetrics ?? true.
ResolveEnableMetrics(given) == IF given = Unset THEN TRUE ELSE given = "true"

\* this.config; givenMaxRetries keeps, for the properties, the maxRetries the
\* constructor was handed.
ClaudeProxyConfig(givenMaxRetries, givenEnableMetrics) ==
  [givenMaxRetries |-> givenMaxRetries,
   maxRetries |-> ResolveMaxRetries(givenMaxRetries),
   model |-> DefaultModel,
   enableMetrics |-> ResolveEnableMetrics(givenEnableMetrics)]

\* ------------------------------------------------------------- request ids
\* Mutant of IncrementRequestCount: the increment is lost.
IncrementRequestCount_Lost(count) == count

\* this.requestCount++ of generateRequestId.
IncrementRequestCount(count) == count + 1

\* `claude-${Date.now()}-${this.requestCount}`, as its two numbers.
generateRequestId(count, t) == [ts |-> t, n |-> IncrementRequestCount(count)]

\* ----------------------------------------------------------------- metrics
\* getMetrics(): { averageOverheadMs: 0, totalRequests: this.requestCount }.
getMetrics(count) == [averageOverheadMs |-> 0, totalRequests |-> count]

\* ------------------------------------------------------------------- cache
\* A key of the cache Map.  JSON.stringify of the four fields is modelled by
\* the members of the JSON document (`json`); a key that is a string literal
\* of the code is modelled by its text (`literal`).
NoJson == [messages |-> <<>>, model |-> Unset, temperature |-> Unset, system |-> Unset]

\* JSON.stringify of a number: JSON has no NaN and no infinities, they are
\* written null.  (An undefined member is left out: Unset stays Unset.)
NonFiniteNumbers == {"NaN", "Infinity", "-Infinity"}

JsonNumber(n) == IF n \in NonFiniteNumbers THEN "null" ELSE n

\* JSON.stringify of an array of objects writes the elements in order and the
\* members of each object in insertion order: the text is the sequence of
\* sequences of members as it stands.
JsonArray(a) == a

\* Mutant of getCacheKey: the key includes the metadata.
getCacheKey_WithMetadata(request) ==
  [literal |-> request.metadata,
   json |-> [messages |-> JsonArray(request.messages), model |-> request.model,
             temperature |-> JsonNumber(request.temperature),
             system |-> request.system]]

\* JSON.stringify({messages, model, temperature, system}).
getCacheKey(request) ==
  [literal |-> "",
   json |-> [messages |-> JsonArray(request.messages), model |-> request.model,
             temperature |-> JsonNumber(request.temperature),
             system |-> request.system]]

\* const key = 'placeholder-key' of cache-store.
StoreKey == [literal |-> "placeholder-key", json |-> NoJson]

EmptyCache == [k \in {} |-> [response |-> NoResponse, expiry |-> 0]]

CacheSet(store, key, entry) ==
  [k \in DOMAIN store \cup {key} |-> IF k = key THEN entry ELSE store[k]]

\* The sweep of cache-store: delete every entry whose expiry is before now.
CacheSweep(store, t) ==
  [k \in {x \in DOMAIN store : ~(store[x].expiry < t)} |-> store[k]]

\* ------------------------------------------------- interceptors' execute()
Returned(value) == [ok |-> TRUE, value |-> value, error |-> NoError]

Thrown(value, error) == [ok |-> FALSE, value |-> value, error |-> error]

ErrorOf(message) == [NoError EXCEPT !.message = message]

\* cache-check: a hit is thrown as the CACHE_HIT error carrying the response.
CacheCheck(request, store, t) ==
  LET key == getCacheKey(request)
  IN IF key \in DOMAIN store /\ store[key].expiry > t
     THEN Thrown(request,
            [ErrorOf("CACHE_HIT") EXCEPT !.cachedResponse =
               [store[key].response EXCEPT !.proxyMetrics =
                  [@ EXCEPT !.present = TRUE, !.cacheHit = TRUE,
                            !.overheadMs = 1]]])
     ELSE Returned(request)

\* A caller-supplied request interceptor: it rejects, or returns the request
\* with its own mark in the metadata.
CustomRequestInterceptor(i, request, fails) ==
  IF fails
  THEN Thrown(request, ErrorOf("interceptor-failed"))
  ELSE Returned([request EXCEPT !.metadata = i.name])

\* The maxTokens handed to createTokenLimitInterceptor.
TokenCeiling == 1000

\* token-limit: a max_tokens that is set and above the ceiling is replaced by
\* the ceiling.
TokenLimit(request) ==
  IF request.max_tokens # 0 /\ request.max_tokens > TokenCeiling
  THEN Returned([request EXCEPT !.max_tokens = TokenCeiling])
  ELSE Returned(request)

ExecuteRequestInterceptor(i, request, fails, store, t) ==
  CASE i.name = "cache-check" -> CacheCheck(request, store, t)
    [] i.name = "token-limit" -> TokenLimit(request)
    [] OTHER -> CustomRequestInterceptor(i, request, fails)

\* response-validation: rejects a response without id or content.
ResponseValidation(response) ==
  IF response.id = "" \/ Len(response.content) = 0
  THEN Thrown(response, ErrorOf("Invalid response structure from Claude API"))
  ELSE Returned(response)

\* Mutant of CacheStore: the stop reason is not looked at.
CacheStore_StoresAll(response, store, t, sweep) ==
  LET stored == CacheSet(store, StoreKey,
                         [response |-> response, expiry |-> t + TtlTicks])
  IN IF sweep THEN CacheSweep(stored, t) ELSE stored

\* cache-store: the cache after execute (sweep: Math.random() < 0.1).
CacheStore(response, store, t, sweep) ==
  IF response.stop_reason = "stop_sequence"
  THEN store
  ELSE LET stored == CacheSet(store, StoreKey,
                        [response |-> response, expiry |-> t + TtlTicks])
       IN IF sweep THEN CacheSweep(stored, t) ELSE stored

ExecuteResponseInterceptor(i, response) ==
  IF i.name = "response-validation"
  THEN ResponseValidation(response)
  ELSE Returned(response)

CacheAfterResponseInterceptor(i, response, store, t, sweep) ==
  IF i.name = "cache-store" THEN CacheStore(response, store, t, sweep) ELSE store

\* --------------------------------------------------------------- the calls
\* An entry of a call's log of interceptor executions: the interceptor, the
\* value execute() was called with, whether it returned (ok) or threw, the
\* value it returned (on a throw: the value it was called with), and the
\* number of upstream attempts the call had made by then.
Ran(i, input, out, attempts) ==
  [name |-> i.name, optional |-> i.optional, ok |-> out.ok, input |-> input,
   output |-> out.value, attempts |-> attempts]

\* A call's locals (request .. error) and, for the properties, its history:
\* ranReq/ranResp log the interceptor executions, regReq0/regResp0 are the
\* interceptors registered when the call started, prior the calls that had
\* returned by then, sent the arguments of the upstream attempts, upstream
\* the payload the upstream client resolved with, waits the waits (ms) p-retry
\* made before the retries.
IdleCall ==
  [pc |-> "idle", request |-> NoRequest, cur |-> NoRequest,
   requestId |-> NoId, startTime |-> 0, apiStartTime |-> 0,
   apiEndTime |-> 0, endTime |-> 0, upstream |-> NoPayload,
   prior |-> {},
   reqArr |-> <<>>, reqLive |-> FALSE, reqIdx |-> 1,
   respArr |-> <<>>, respLive |-> FALSE, respIdx |-> 1,
   attempts |-> 0, lastStatus |-> NoFailure, sent |-> <<>>, waits |-> <<>>,
   ranReq |-> <<>>, ranResp |-> <<>>, regReq0 |-> <<>>, regResp0 |-> <<>>,
   response |-> NoResponse, error |-> NoError]

\* Mutant of CatchInSendMessage: the error is rethrown as it is.
CatchInSendMessage_Unannotated(call, error) ==
  [call EXCEPT !.pc = "failed", !.reqArr = <<>>, !.reqLive = FALSE,
               !.respArr = <<>>, !.respLive = FALSE, !.error = error]

\* catch (error) of sendMessage: the error gets the request id and is rethrown.
CatchInSendMessage(call, error) ==
  [call EXCEPT !.pc = "failed", !.reqArr = <<>>, !.reqLive = FALSE,
               !.respArr = <<>>, !.respLive = FALSE,
               !.error = [error EXCEPT !.requestId = call.requestId]]

\* Mutant of OnRequestInterceptorFailure: the error is logged and the loop
\* goes on with the value it had.
OnRequestInterceptorFailure_Swallow(call, i, out) ==
  [call EXCEPT !.reqIdx = @ + 1]

\* catch (error) of applyRequestInterceptors: log and rethrow.
OnRequestInterceptorFailure(call, i, out) == CatchInSendMessage(call, out.error)

\* Mutant of ApplyRequestStep: every interceptor is called with the request
\* sendMessage was given, not with the result of the one before it.
ApplyRequestStep_PassesOriginal(call, fails, store, t) ==
  IF call.reqIdx <= Len(call.reqArr)
  THEN LET i == call.reqArr[call.reqIdx]
           out == ExecuteRequestInterceptor(i, call.request, fails, store, t)
           ran == [call EXCEPT !.ranReq =
                     Append(@, Ran(i, call.request, out, call.attempts))]
       IN IF out.ok
          THEN [ran EXCEPT !.cur = out.value, !.reqIdx = @ + 1]
          ELSE OnRequestInterceptorFailure(ran, i, out)
  ELSE [call EXCEPT !.pc = "forward", !.reqArr = <<>>, !.reqLive = FALSE]

\* One turn of the for-of loop of applyRequestInterceptors: the iterator reads
\* the array as it is now; the next interceptor's execute is called and
\* awaited, or the loop ends and the request is handed to the retry block.
ApplyRequestStep(call, fails, store, t) ==
  IF call.reqIdx <= Len(call.reqArr)
  THEN LET i == call.reqArr[call.reqIdx]
           out == ExecuteRequestInterceptor(i, call.cur, fails, store, t)
           ran == [call EXCEPT !.ranReq =
                     Append(@, Ran(i, call.cur, out, call.attempts))]
       IN IF out.ok
          THEN [ran EXCEPT !.cur = out.value, !.reqIdx = @ + 1]
          ELSE OnRequestInterceptorFailure(ran, i, out)
  ELSE [call EXCEPT !.pc = "forward", !.reqArr = <<>>, !.reqLive = FALSE]

\* Mutant of OnResponseInterceptorFailure: the failure is treated as a failed
\* attempt and the upstream call is made again.
OnResponseInterceptorFailure_Retries(call, i, out) == [call EXCEPT !.pc = "backoff"]

\* catch (error) of applyResponseInterceptors: log and rethrow.
OnResponseInterceptorFailure(call, i, out) == CatchInSendMessage(call, out.error)

\* One turn of the for-of loop of applyResponseInterceptors.
ApplyResponseStep(call) ==
  IF call.respIdx <= Len(call.respArr)
  THEN LET i == call.respArr[call.respIdx]
           out == ExecuteResponseInterceptor(i, call.response)
           ran == [call EXCEPT !.ranResp =
                     Append(@, Ran(i, call.response, out, call.attempts))]
       IN IF out.ok
          THEN [ran EXCEPT !.response = out.value, !.respIdx = @ + 1]
          ELSE OnResponseInterceptorFailure(ran, i, out)
  ELSE [call EXCEPT !.pc = "returned", !.respArr = <<>>, !.respLive = FALSE]

\* The cache after that turn.
CacheAfterResponseStep(call, store, t, sweep) ==
  IF call.respIdx <= Len(call.respArr)
  THEN CacheAfterResponseInterceptor(call.respArr[call.respIdx], call.response,
                                     store, t, sweep)
  ELSE store

\* ------------------------------------------------------------------- retry
\* model: interceptedRequest.model || this.config.model
UpstreamModel(request, cfg) ==
  IF request.model = Unset THEN cfg.model ELSE request.model

\* The argument of client.messages.create, built from interceptedRequest.
CreateParams(request, cfg) ==
  [model |-> UpstreamModel(request, cfg),
   messages |-> request.messages,
   max_tokens |-> IF request.max_tokens = 0 THEN DefaultMaxTokens
                  ELSE request.max_tokens,
   temperature |-> request.temperature,
   system |-> request.system]

\* Mutant of Attempt: a retry is built from the request sendMessage was given.
Attempt_RetryFromOriginal(call, cfg) ==
  LET from == IF call.attempts = 0 THEN call.cur ELSE call.request
  IN [call EXCEPT !.pc = "upstream", !.attempts = @ + 1, !.lastStatus = NoFailure,
                  !.sent = Append(@, [from |-> from,
                                      params |-> CreateParams(from, cfg)])]

\* The callback handed to pRetry is run: one upstream attempt, built from
\* interceptedRequest.
Attempt(call, cfg) ==
  [call EXCEPT !.pc = "upstream", !.attempts = @ + 1, !.lastStatus = NoFailure,
               !.sent = Append(@, [from |-> call.cur,
                                   params |-> CreateParams(call.cur, cfg)])]

\* Mutant of IsRetryable: every error that has a status code is retried.
IsRetryable_AnyStatus(status) == status # 0

\* [429, 500, 502, 503, 504].includes(apiError.statusCode), guarded by the
\* truthiness of statusCode.
IsRetryable(status) == status # 0 /\ status \in RetryableStatusCodes

\* Mutant of RetriesLeft: the retries are never used up.
RetriesLeft_Always(call, cfg) == 1

\* Mutant of RetriesLeft: one retry too many.
RetriesLeft_OneMore(call, cfg) == cfg.maxRetries - (call.attempts - 1) + 1

\* p-retry with retries = config.maxRetries: a failed attempt is retried while
\* fewer than `retries` retries were made.
RetriesLeft(call, cfg) == cfg.maxRetries - (call.attempts - 1)

\* The waits p-retry is asked for: factor, minTimeout and maxTimeout of
\* retryOptions (randomize is not set: no jitter).
retryOptions == [factor |-> 2, minTimeout |-> 1000, maxTimeout |-> 10000]

\* Mutant of BackoffWait: the wait is not capped.
BackoffWait_Uncapped(k) == retryOptions.minTimeout * retryOptions.factor ^ k

\* The wait p-retry makes after the failed attempt number k (from 0):
\* Math.min(minTimeout * Math.pow(factor, k), maxTimeout).
BackoffWait(k) ==
  LET wait == retryOptions.minTimeout * retryOptions.factor ^ k
  IN IF wait < retryOptions.maxTimeout THEN wait ELSE retryOptions.maxTimeout

\* The error object the upstream client rejects with.
UpstreamError(status) == [ErrorOf("upstream-error") EXCEPT !.statusCode = status]

\* The catch inside the pRetry callback and p-retry's handling of what it
\* throws.  Retryable: the error itself is rethrown with retryable = true, and
\* p-retry waits and runs the callback again, or rejects with that error when
\* the retries are used up.  Otherwise apiError.retryable = false is set on the
\* upstream error and a new AbortError(apiError.message) is thrown: p-retry
\* rejects at once with the Error built from that message.
AfterFailedAttempt(call, status, cfg) ==
  IF IsRetryable(status)
  THEN IF RetriesLeft(call, cfg) > 0
       THEN [call EXCEPT !.pc = "backoff", !.lastStatus = status,
                         !.waits = Append(@, BackoffWait(call.attempts - 1))]
       ELSE CatchInSendMessage([call EXCEPT !.lastStatus = status],
              [UpstreamError(status) EXCEPT !.retryable = "true"])
  ELSE CatchInSendMessage([call EXCEPT !.lastStatus = status],
         ErrorOf("upstream-error"))

\* The models the two prices of calculateCost are the prices of ("Claude 3
\* Sonnet pricing").
PricedModels == {"claude-3-sonnet-20240229"}

\* response.usage?.input_tokens + response.usage?.output_tokens || 0
tokensUsed(usage) ==
  IF usage.present THEN usage.input_tokens + usage.output_tokens ELSE 0

\* Mutant of calculateCost: output tokens are priced at the input rate.
calculateCost_OneRate(usage) ==
  IF ~usage.present
  THEN 0
  ELSE (usage.input_tokens + usage.output_tokens) * InputPricePerMillion

\* calculateCost, in millionths of a dollar: (input_tokens / 1_000_000) * 3
\* + (output_tokens / 1_000_000) * 15, whatever the model of the call.
calculateCost(usage) ==
  IF ~usage.present
  THEN 0
  ELSE LET inputCost == usage.input_tokens * InputPricePerMillion
           outputCost == usage.output_tokens * OutputPricePerMillion
       IN inputCost + outputCost

\* Mutant of EnhancedResponse: the members of the payload are not copied.
EnhancedResponse_DropsPayload(call, payload, apiEndTime, endTime, cfg) ==
  [NoResponse EXCEPT !.proxyMetrics =
     [NoMetrics EXCEPT !.present = cfg.enableMetrics,
                       !.requestId = call.requestId]]

\* Mutant of EnhancedResponse: the subtraction of the overhead is reversed.
EnhancedResponse_OverheadReversed(call, payload, apiEndTime, endTime, cfg) ==
  LET latencyMs == apiEndTime - call.apiStartTime
  IN [id |-> payload.id, content |-> payload.content,
      stop_reason |-> payload.stop_reason, usage |-> payload.usage,
      proxyMetrics |->
        [present |-> cfg.enableMetrics, requestId |-> call.requestId,
         latencyMs |-> latencyMs,
         overheadMs |-> latencyMs - (endTime - call.startTime),
         tokensUsed |-> 0, cost |-> 0, cacheHit |-> FALSE, retryCount |-> 0]]

\* Mutant of EnhancedResponse: the request id is built again from the counter
\* of the proxy when the response is enhanced.
EnhancedResponse_IdFromCounter(call, payload, apiEndTime, endTime, cfg) ==
  LET latencyMs == apiEndTime - call.apiStartTime
      overheadMs == endTime - call.startTime - latencyMs
  IN [id |-> payload.id, content |-> payload.content,
      stop_reason |-> payload.stop_reason, usage |-> payload.usage,
      proxyMetrics |->
        IF cfg.enableMetrics
        THEN [present |-> TRUE,
              requestId |-> [ts |-> call.requestId.ts, n |-> requestCount],
              latencyMs |-> latencyMs, overheadMs |-> overheadMs,
              tokensUsed |-> tokensUsed(payload.usage),
              cost |-> calculateCost(payload.usage),
              cacheHit |-> FALSE, retryCount |-> 0]
        ELSE NoMetrics]

\* enhancedResponse: the payload with the proxyMetrics of this call.
\* apiEndTime and endTime are two successive readings of the clock.
EnhancedResponse(call, payload, apiEndTime, endTime, cfg) ==
  LET latencyMs == apiEndTime - call.apiStartTime
      overheadMs == endTime - call.startTime - latencyMs
  IN [id |-> payload.id, content |-> payload.content,
      stop_reason |-> payload.stop_reason, usage |-> payload.usage,
      proxyMetrics |->
        IF cfg.enableMetrics
        THEN [present |-> TRUE, requestId |-> call.requestId,
              latencyMs |-> latencyMs, overheadMs |-> overheadMs,
              tokensUsed |-> tokensUsed(payload.usage),
              cost |-> calculateCost(payload.usage),
              cacheHit |-> FALSE, retryCount |-> 0]
        ELSE NoMetrics]

\* ----------------------------------------------------------- configuration
\* process.env, as the settings studied here: NODE_ENV, PORT, DATABASE_URL,
\* CLAUDE_API_KEY, CLAUDE_MAX_RETRIES and JWT_SECRET.  The other settings that
\* have no default (REDIS_URL, WEAVIATE_URL, ENCRYPTION_KEY) are set and valid
\* throughout.
ValidEnv ==
  [NODE_ENV |-> "test", PORT |-> Unset,
   DATABASE_URL |-> "postgresql://localhost:5432/test",
   CLAUDE_API_KEY |-> "test-key", CLAUDE_MAX_RETRIES |-> Unset,
   JWT_SECRET |-> "test-secret-key-that-is-32-chars!"]

Envs ==
  [NODE_ENV : {Unset, "bogus"},
   PORT : {Unset, "abc", "8080abc"},
   DATABASE_URL : {Unset, "postgresql://localhost:5432/test", "localhost"},
   CLAUDE_API_KEY : {Unset, "test-key"},
   CLAUDE_MAX_RETRIES : {Unset},
   JWT_SECRET : {"short", "test-secret-key-that-is-32-chars!"}]

\* The .env file dotenv reads: it defines nothing, or a port and a database.
NoEnvFile ==
  [NODE_ENV |-> Unset, PORT |-> Unset, DATABASE_URL |-> Unset,
   CLAUDE_API_KEY |-> Unset, CLAUDE_MAX_RETRIES |-> Unset, JWT_SECRET |-> Unset]

EnvFiles ==
  { NoEnvFile,
    [NoEnvFile EXCEPT !.PORT = "8080",
                      !.DATABASE_URL = "postgresql://localhost:5432/test"] }

\* dotenv.config({ path }): a setting of the file is put into process.env
\* unless process.env has it already.
DotenvConfig(env, file) ==
  [k \in DOMAIN env |-> IF env[k] = Unset THEN file[k] ELSE env[k]]

\* parseInt(text, 10): the leading digits of the text, NaN if there are none.
ParseInt(text) ==
  CASE text = "3000" -> [isNaN |-> FALSE, n |-> 3000]
    [] text = "8080" -> [isNaN |-> FALSE, n |-> 8080]
    [] text = "8080abc" -> [isNaN |-> FALSE, n |-> 8080]
    [] text = "3" -> [isNaN |-> FALSE, n |-> 3]
    [] OTHER -> [isNaN |-> TRUE, n |-> 0]

\* value || fallback, for strings: undefined and '' give the fallback.
OrElse(value, fallback) == IF value \in {Unset, ""} THEN fallback ELSE value

\* rawConfig of loadEnvironment.
RawConfig(given, env) ==
  [env |-> OrElse(given, OrElse(env.NODE_ENV, "development")),
   port |-> ParseInt(OrElse(env.PORT, "3000")),
   database |-> [url |-> OrElse(env.DATABASE_URL, "")],
   claude |-> [apiKey |-> OrElse(env.CLAUDE_API_KEY, ""),
               maxRetries |-> ParseInt(OrElse(env.CLAUDE_MAX_RETRIES, "3"))],
   security |-> [jwtSecret |-> OrElse(env.JWT_SECRET, "")]]

Environments == {"development", "staging", "production", "test"}

\* z.string().url(): the texts above that are URLs.
IsUrl(text) == text \in {"postgresql://localhost:5432/test"}

\* The length of the texts above.
StringLength(text) ==
  CASE text = "test-secret-key-that-is-32-chars!" -> 33
    [] text = "test-key" -> 8
    [] text = "short" -> 5
    [] OTHER -> 0

\* ConfigSchema.safeParse(rawConfig).success; z.number() rejects NaN.
SchemaAccepts(raw) ==
  /\ raw.env \in Environments
  /\ ~raw.port.isNaN /\ raw.port.n >= 1 /\ raw.port.n <= 65535
  /\ IsUrl(raw.database.url)
  /\ StringLength(raw.claude.apiKey) >= 1
  /\ ~raw.claude.maxRetries.isNaN /\ raw.claude.maxRetries.n >= 0
  /\ StringLength(raw.security.jwtSecret) >= 32

\* The Config value of a raw configuration (result.data).
DataOf(raw) ==
  [present |-> TRUE, env |-> raw.env, port |-> raw.port.n,
   database |-> raw.database,
   claude |-> [apiKey |-> raw.claude.apiKey, maxRetries |-> raw.claude.maxRetries.n],
   security |-> raw.security]

\* private config: Config | null = null.
NoConfig ==
  [present |-> FALSE, env |-> Unset, port |-> 0, database |-> [url |-> ""],
   claude |-> [apiKey |-> "", maxRetries |-> 0],
   security |-> [jwtSecret |-> ""]]

\* Mutant of StoreConfig: the configuration is stored before it is validated.
StoreConfig_Unvalidated(stored, raw) == DataOf(raw)

\* this.config after loadEnvironment: result.data, or what it was when the
\* validation failed and loadEnvironment threw.
StoreConfig(stored, raw) == IF SchemaAccepts(raw) THEN DataOf(raw) ELSE stored

\* What a call of loadEnvironment or getConfig came to: `before` is
\* this.config when it started, `env` the process.env it read, `raw` the
\* rawConfig it built, `returned` what getConfig returned.
NoConfigCall ==
  [op |-> "none", threw |-> FALSE, message |-> "", before |-> NoConfig,
   loaded |-> FALSE, env |-> NoEnvFile, raw |-> RawConfig(Unset, NoEnvFile),
   returned |-> NoConfig]

NewConfigManager == [config |-> NoConfig, loads |-> 0, last |-> NoConfigCall]

\* The body of loadEnvironment(env) on the manager, process.env being `env`
\* after dotenv.config.
LoadEnvironmentOn(manager, op, given, env) ==
  LET raw == RawConfig(given, env)
      ok == SchemaAccepts(raw)
  IN [config |-> StoreConfig(manager.config, raw),
      loads |-> manager.loads + 1,
      last |-> [op |-> op, threw |-> ~ok,
                message |-> IF ok THEN "" ELSE "Invalid configuration",
                before |-> manager.config, loaded |-> TRUE, env |-> env,
                raw |-> raw,
                returned |-> NoConfig]]

\* ---------------------------------------------------------------- database
\* An initialize() call: where it stands (idle, connecting, querying,
\* returned, threw), the pool it found or created, whether it called
\* pool.connect(), and the error it threw.
NoInitialize == [pc |-> "idle", pool |-> 0, attempted |-> FALSE, error |-> ""]

\* A transaction(callback) call: where it stands (idle, connecting, begin,
\* callback, commit, rollback, returned, threw), the statements it issued on
\* its client, whether it got a client and how often it released it, how the
\* callback ended (none, ok, failed), the error the catch block caught and the
\* error the call threw.
NoTransaction ==
  [pc |-> "idle", log |-> <<>>, acquired |-> FALSE, released |-> 0,
   callback |-> "none", caught |-> "", error |-> ""]

\* What getPool() came to: whether it threw, the pool it returned, and whether
\* the connection test of that pool had failed by then.
NoGetPool == [threw |-> FALSE, pool |-> 0, failedPool |-> FALSE]

\* private pool: Pool | null = null (0: null, n: the n-th Pool created) and
\* private isShuttingDown = false; around them the pools created so far, the
\* pools whose connection test failed, the clients checked out of the pools,
\* the calls of initialize, transaction and shutdown in flight, the last
\* getPool, and the number of calls made.
NewDatabaseManager ==
  [pool |-> 0, isShuttingDown |-> FALSE,
   created |-> 0, failed |-> {}, checkedOut |-> 0,
   init |-> NoInitialize, tx |-> NoTransaction, ending |-> FALSE,
   got |-> NoGetPool, ops |-> 0]

\* try { BEGIN; callback; COMMIT } catch (error) { ROLLBACK; throw error }:
\* the awaited statement or callback rejected with `error`, the catch block
\* issues ROLLBACK.
CatchInTransaction(tx, error) ==
  [tx EXCEPT !.pc = "rollback", !.caught = error, !.log = Append(@, "ROLLBACK")]

\* finally { client.release() }: the call settles, with the error that is
\* propagating if there is one.
FinallyInTransaction(tx, error) ==
  IF error = ""
  THEN [tx EXCEPT !.pc = "returned", !.released = @ + 1]
  ELSE [tx EXCEPT !.pc = "threw", !.released = @ + 1, !.error = error]

\* ------------------------------------------------------------------- state
\* The modules beside the proxy as they are when nothing has used them.
ModulesLoaded ==
  /\ processEnv = ValidEnv
  /\ configManager = NewConfigManager
  /\ db = NewDatabaseManager

\* new ClaudeProxy(config): no interceptors, no calls yet.
Constructed(givenMaxRetries, givenEnableMetrics, setup) ==
  /\ config = ClaudeProxyConfig(givenMaxRetries, givenEnableMetrics)
  /\ requestInterceptors = setup.request
  /\ responseInterceptors = setup.response
  /\ requestCount = 0
  /\ cache = EmptyCache
  /\ now = 0
  /\ calls = [c \in Calls |-> IdleCall]
  /\ opsUsed = 0

Init ==
  /\ \E m \in 0..MaxRetriesCfg :
       Constructed(m, Unset, [request |-> <<>>, response |-> <<>>])
  /\ probe = NoProbe
  /\ ModulesLoaded

\* Whether the k-th interceptor of a request pipeline is one whose execute()
\* can reject: the choice `fails` is open only then.
CanFail(arr, k) == k <= Len(arr) /\ arr[k].name \notin {"cache-check", "token-limit"}

\* Whether the k-th interceptor of a response pipeline is cache-store, the one
\* that draws Math.random(): the choice `sweep` is open only then.
CanSweep(arr, k) == k <= Len(arr) /\ arr[k].name = "cache-store"

\* Pipelines a caller has registered, in this order, before the first call.
Setups ==
  { [request |-> <<>>, response |-> <<>>],
    [request |-> <<[name |-> "cache-check", optional |-> FALSE]>>,
     response |-> <<[name |-> "cache-store", optional |-> FALSE]>>],
    [request |-> <<[name |-> "custom", optional |-> FALSE],
                   [name |-> "custom-optional", optional |-> TRUE]>>,
     response |-> <<[name |-> "response-validation", optional |-> FALSE],
                    [name |-> "cache-store", optional |-> FALSE]>>] }

\* The setups without the cache-check request interceptor.
PlainSetups == {s \in Setups : \A k \in 1..Len(s.request) : CanFail(s.request, k)}

\* new ClaudeProxy(config) with a maxRetries of the caller's, followed by the
\* add...Interceptor calls of a plain setup.
InitRegistered ==
  /\ \E m \in 1..MaxRetriesCfg, s \in PlainSetups : Constructed(m, Unset, s)
  /\ probe = NoProbe
  /\ ModulesLoaded

\* The same over every setup, with enableMetrics left out, true or false.
InitTimed ==
  /\ \E m \in 1..MaxRetriesCfg, e \in {Unset, "true", "false"}, s \in Setups :
       Constructed(m, e, s)
  /\ probe = NoProbe
  /\ ModulesLoaded

\* sendMessage up to its first await: the start time, the request id, and the
\* first turn of the request-interceptor loop over this.requestInterceptors.
SendMessageBody(c, r, fails) ==
  /\ calls[c].pc = "idle"
  /\ fails => CanFail(requestInterceptors, 1)
  /\ \A d \in Calls : d < c => calls[d].pc # "idle"
  /\ LET id == generateRequestId(requestCount, now)
         started == [IdleCall EXCEPT !.pc = "reqInt", !.request = r, !.cur = r,
                       !.requestId = id, !.startTime = now,
                       !.reqArr = requestInterceptors, !.reqLive = TRUE,
                       !.prior = {d \in Calls : calls[d].pc = "returned"},
                       !.regReq0 = Names(requestInterceptors),
                       !.regResp0 = Names(responseInterceptors)]
     IN /\ requestCount' = id.n
        /\ calls' = [calls EXCEPT ![c] = ApplyRequestStep(started, fails, cache, now)]
  /\ UNCHANGED <<aside, probe, config, requestInterceptors, responseInterceptors, cache, now, opsUsed>>

\* A caller of the exported class calls proxy.sendMessage(request).
SendMessage(c, r, fails) == SendMessageBody(c, r, fails)

\* POST /message: a body without messages is answered 400 and the proxy is
\* not called; any other body goes to proxy.sendMessage.
PostMessage(c, r, fails) ==
  IF Len(r.messages) = 0
  THEN /\ calls[c].pc = "idle"
       /\ \A d \in Calls : d < c => calls[d].pc # "idle"
       /\ calls' = [calls EXCEPT ![c] = [IdleCall EXCEPT !.pc = "http400", !.request = r]]
       /\ UNCHANGED <<aside, probe, config, requestInterceptors, responseInterceptors,
                      requestCount, cache, now, opsUsed>>
  ELSE SendMessageBody(c, r, fails)

\* The awaited request interceptor has settled: the next turn of the loop.
RequestInterceptorStep(c, fails) ==
  /\ calls[c].pc = "reqInt"
  /\ fails => CanFail(calls[c].reqArr, calls[c].reqIdx)
  /\ calls' = [calls EXCEPT ![c] = ApplyRequestStep(calls[c], fails, cache, now)]
  /\ UNCHANGED <<aside, probe, config, requestInterceptors, responseInterceptors, requestCount,
                 cache, now, opsUsed>>

\* Mutant of BeginUpstream: the upstream client is used by one call at a time.
BeginUpstream_OneAtATime(c) ==
  /\ calls[c].pc = "forward"
  /\ \A d \in Calls : calls[d].pc \notin {"upstream", "backoff"}
  /\ calls' = [calls EXCEPT ![c] =
                 Attempt([calls[c] EXCEPT !.apiStartTime = now], config)]
  /\ UNCHANGED <<aside, probe, config, requestInterceptors, responseInterceptors, requestCount,
                 cache, now, opsUsed>>

\* applyRequestInterceptors has resolved: apiStartTime is taken and p-retry
\* makes the first attempt, client.messages.create.
BeginUpstream(c) ==
  /\ calls[c].pc = "forward"
  /\ calls' = [calls EXCEPT ![c] =
                 Attempt([calls[c] EXCEPT !.apiStartTime = now], config)]
  /\ UNCHANGED <<aside, probe, config, requestInterceptors, responseInterceptors, requestCount,
                 cache, now, opsUsed>>

\* The upstream attempt rejects.
UpstreamFails(c, status) ==
  /\ calls[c].pc = "upstream"
  /\ calls' = [calls EXCEPT ![c] = AfterFailedAttempt(calls[c], status, config)]
  /\ UNCHANGED <<aside, probe, config, requestInterceptors, responseInterceptors, requestCount,
                 cache, now, opsUsed>>

\* p-retry's timer fires: the next attempt.
BackoffElapsed(c) ==
  /\ calls[c].pc = "backoff"
  /\ calls' = [calls EXCEPT ![c] = Attempt(calls[c], config)]
  /\ UNCHANGED <<aside, probe, config, requestInterceptors, responseInterceptors, requestCount,
                 cache, now, opsUsed>>

\* The upstream attempt resolves: the metrics are computed, and
\* applyResponseInterceptors starts its loop over this.responseInterceptors.
\* The clock is read twice (apiEndTime, endTime) and may advance by dt between
\* the two readings.
UpstreamSucceeds(c, payload, sweep, dt) ==
  /\ calls[c].pc = "upstream"
  /\ sweep => CanSweep(responseInterceptors, 1)
  /\ now + dt <= MaxTime
  /\ now' = now + dt
  /\ LET entered == [calls[c] EXCEPT !.pc = "respInt",
                       !.upstream = payload,
                       !.response = EnhancedResponse(calls[c], payload, now,
                                                     now', config),
                       !.apiEndTime = now, !.endTime = now',
                       !.respArr = responseInterceptors, !.respLive = TRUE,
                       !.respIdx = 1]
     IN /\ calls' = [calls EXCEPT ![c] = ApplyResponseStep(entered)]
        /\ cache' = CacheAfterResponseStep(entered, cache, now', sweep)
  /\ UNCHANGED <<aside, probe, config, requestInterceptors, responseInterceptors, requestCount,
                 opsUsed>>

\* The awaited response interceptor has settled: the next turn of the loop.
ResponseInterceptorStep(c, sweep) ==
  /\ calls[c].pc = "respInt"
  /\ sweep => CanSweep(calls[c].respArr, calls[c].respIdx)
  /\ calls' = [calls EXCEPT ![c] = ApplyResponseStep(calls[c])]
  /\ cache' = CacheAfterResponseStep(calls[c], cache, now, sweep)
  /\ UNCHANGED <<aside, probe, config, requestInterceptors, responseInterceptors, requestCount,
                 now, opsUsed>>

\* this.requestInterceptors.push(interceptor): the array is changed in place,
\* so a loop that iterates this very array sees the new element.
addRequestInterceptor(i) ==
  /\ opsUsed < MaxOps
  /\ \A k \in 1..Len(requestInterceptors) : requestInterceptors[k] # i
  /\ opsUsed' = opsUsed + 1
  /\ requestInterceptors' = Append(requestInterceptors, i)
  /\ calls' = [c \in Calls |->
                 IF calls[c].reqLive
                 THEN [calls[c] EXCEPT !.reqArr = Append(@, i)]
                 ELSE calls[c]]
  /\ UNCHANGED <<aside, probe, config, responseInterceptors, requestCount, cache, now>>

\* this.responseInterceptors.push(interceptor).
addResponseInterceptor(i) ==
  /\ opsUsed < MaxOps
  /\ \A k \in 1..Len(responseInterceptors) : responseInterceptors[k] # i
  /\ opsUsed' = opsUsed + 1
  /\ responseInterceptors' = Append(responseInterceptors, i)
  /\ calls' = [c \in Calls |->
                 IF calls[c].respLive
                 THEN [calls[c] EXCEPT !.respArr = Append(@, i)]
                 ELSE calls[c]]
  /\ UNCHANGED <<aside, probe, config, requestInterceptors, requestCount, cache, now>>

\* Both fields are assigned new filtered arrays: a loop already running keeps
\* iterating the array it started on, which nothing changes any more.
removeInterceptor(name) ==
  /\ opsUsed < MaxOps
  /\ \/ \E k \in 1..Len(requestInterceptors) : requestInterceptors[k].name = name
     \/ \E k \in 1..Len(responseInterceptors) : responseInterceptors[k].name = name
  /\ opsUsed' = opsUsed + 1
  /\ requestInterceptors' = SelectSeq(requestInterceptors, LAMBDA i : i.name # name)
  /\ responseInterceptors' = SelectSeq(responseInterceptors, LAMBDA i : i.name # name)
  /\ calls' = [c \in Calls |-> [calls[c] EXCEPT !.reqLive = FALSE, !.respLive = FALSE]]
  /\ UNCHANGED <<aside, probe, config, requestCount, cache, now>>

\* Time passes.
Tick ==
  /\ now < MaxTime
  /\ now' = now + 1
  /\ UNCHANGED <<aside, probe, config, requestInterceptors, responseInterceptors, requestCount,
                 cache, calls, opsUsed>>

\* The next step of call c, whichever it is: the continuation the event loop
\* runs once the promise the call awaits has settled.
StepOf(c) ==
  \/ \E fails \in BOOLEAN : RequestInterceptorStep(c, fails)
  \/ BeginUpstream(c)
  \/ \E status \in UpstreamStatuses : UpstreamFails(c, status)
  \/ BackoffElapsed(c)
  \/ \E payload \in Payloads, sweep \in BOOLEAN : UpstreamSucceeds(c, payload, sweep, 0)
  \/ \E sweep \in BOOLEAN : ResponseInterceptorStep(c, sweep)

NoCallInFlight ==
  \A d \in Calls : calls[d].pc \in {"idle", "returned", "failed", "http400"}

\* Interceptor management: calls are made one after the other, and the
\* interceptors are added and removed at any time, also while a call is in
\* flight.
Next ==
  \/ \E c \in Calls, r \in Requests, fails \in BOOLEAN :
       NoCallInFlight /\ SendMessage(c, r, fails)
  \/ \E c \in Calls, r \in Requests, fails \in BOOLEAN :
       NoCallInFlight /\ PostMessage(c, r, fails)
  \/ \E c \in Calls, fails \in BOOLEAN : RequestInterceptorStep(c, fails)
  \/ \E c \in Calls : BeginUpstream(c)
  \/ \E c \in Calls, status \in UpstreamStatuses : UpstreamFails(c, status)
  \/ \E c \in Calls : BackoffElapsed(c)
  \/ \E c \in Calls, payload \in Payloads, sweep \in BOOLEAN :
       UpstreamSucceeds(c, payload, sweep, 0)
  \/ \E c \in Calls, sweep \in BOOLEAN : ResponseInterceptorStep(c, sweep)
  \/ \E i \in RequestInterceptorPool : addRequestInterceptor(i)
  \/ \E i \in ResponseInterceptorPool : addResponseInterceptor(i)
  \/ \E name \in InterceptorNames : removeInterceptor(name)

Spec == Init /\ [][Next]_vars

\* Concurrent calls: the calls overlap in any way; the pipelines are those
\* registered before the first call.
NextConcurrent ==
  \/ \E c \in Calls, r \in Requests, fails \in BOOLEAN : SendMessage(c, r, fails)
  \/ \E c \in Calls, r \in Requests, fails \in BOOLEAN : PostMessage(c, r, fails)
  \/ \E c \in Calls, fails \in BOOLEAN : RequestInterceptorStep(c, fails)
  \/ \E c \in Calls : BeginUpstream(c)
  \/ \E c \in Calls, status \in UpstreamStatuses : UpstreamFails(c, status)
  \/ \E c \in Calls : BackoffElapsed(c)
  \/ \E c \in Calls, payload \in Payloads, sweep \in BOOLEAN :
       UpstreamSucceeds(c, payload, sweep, 0)
  \/ \E c \in Calls, sweep \in BOOLEAN : ResponseInterceptorStep(c, sweep)

SpecConcurrent == InitRegistered /\ [][NextConcurrent]_vars

\* Calls made one after the other while time passes, over the pipelines
\* registered before the first call, with the metrics enabled or not.
NextTimed ==
  \/ \E c \in Calls, r \in Requests \cup RequestsWithModel, fails \in BOOLEAN :
       NoCallInFlight /\ SendMessage(c, r, fails)
  \/ \E c \in Calls, r \in Requests \cup RequestsWithModel, fails \in BOOLEAN :
       NoCallInFlight /\ PostMessage(c, r, fails)
  \/ \E c \in Calls, fails \in BOOLEAN : RequestInterceptorStep(c, fails)
  \/ \E c \in Calls : BeginUpstream(c)
  \/ \E c \in Calls, status \in UpstreamStatuses : UpstreamFails(c, status)
  \/ \E c \in Calls : BackoffElapsed(c)
  \/ \E c \in Calls, payload \in Payloads, sweep \in BOOLEAN, dt \in 0..MaxTime :
       UpstreamSucceeds(c, payload, sweep, dt)
  \/ \E c \in Calls, sweep \in BOOLEAN : ResponseInterceptorStep(c, sweep)
  \/ Tick

SpecTimed == InitTimed /\ [][NextTimed]_vars

\* The timing of a call: as NextTimed, for the first MaxTimedCalls calls.
NextClock ==
  \/ \E c \in 1..MaxTimedCalls, r \in Requests, fails \in BOOLEAN :
       NoCallInFlight /\ SendMessage(c, r, fails)
  \/ \E c \in 1..MaxTimedCalls, r \in Requests, fails \in BOOLEAN :
       NoCallInFlight /\ PostMessage(c, r, fails)
  \/ \E c \in Calls, fails \in BOOLEAN : RequestInterceptorStep(c, fails)
  \/ \E c \in Calls : BeginUpstream(c)
  \/ \E c \in Calls, status \in UpstreamStatuses : UpstreamFails(c, status)
  \/ \E c \in Calls : BackoffElapsed(c)
  \/ \E c \in Calls, payload \in Payloads, sweep \in BOOLEAN, dt \in 0..MaxTime :
       UpstreamSucceeds(c, payload, sweep, dt)
  \/ \E c \in Calls, sweep \in BOOLEAN : ResponseInterceptorStep(c, sweep)
  \/ Tick

SpecClock == InitTimed /\ [][NextClock]_vars

\* The cache-store interceptor at work: calls made one after the other, while
\* time passes, by a proxy with cache-store registered, the upstream resolving
\* with any payload, one that ended on a stop sequence included.
InitStore ==
  /\ \E m \in 1..MaxRetriesCfg, s \in Setups :
       /\ s.response # <<>>
       /\ Constructed(m, Unset, s)
  /\ probe = NoProbe
  /\ ModulesLoaded

NextStore ==
  \/ \E c \in 1..MaxTimedCalls, r \in Requests, fails \in BOOLEAN :
       NoCallInFlight /\ SendMessage(c, r, fails)
  \/ \E c \in 1..MaxTimedCalls, r \in Requests, fails \in BOOLEAN :
       NoCallInFlight /\ PostMessage(c, r, fails)
  \/ \E c \in Calls, fails \in BOOLEAN : RequestInterceptorStep(c, fails)
  \/ \E c \in Calls : BeginUpstream(c)
  \/ \E c \in Calls, status \in UpstreamStatuses : UpstreamFails(c, status)
  \/ \E c \in Calls : BackoffElapsed(c)
  \/ \E c \in Calls, payload \in Payloads \cup StopSequencePayloads,
        sweep \in BOOLEAN, dt \in 0..MaxTime :
       UpstreamSucceeds(c, payload, sweep, dt)
  \/ \E c \in Calls, sweep \in BOOLEAN : ResponseInterceptorStep(c, sweep)
  \/ Tick

SpecStore == InitStore /\ [][NextStore]_vars

\* The token-limit interceptor at work: calls made one after the other by a
\* proxy with token-limit registered, for requests that set max_tokens or not.
InitTokenLimit ==
  /\ \E m \in 1..MaxRetriesCfg :
       Constructed(m, Unset,
         [request |-> <<[name |-> "token-limit", optional |-> FALSE],
                        [name |-> "custom", optional |-> FALSE]>>,
          response |-> <<[name |-> "response-validation", optional |-> FALSE]>>])
  /\ probe = NoProbe
  /\ ModulesLoaded

NextTokenLimit ==
  \/ \E c \in Calls, r \in Requests \cup RequestsWithMaxTokens, fails \in BOOLEAN :
       NoCallInFlight /\ SendMessage(c, r, fails)
  \/ \E c \in Calls, r \in Requests \cup RequestsWithMaxTokens, fails \in BOOLEAN :
       NoCallInFlight /\ PostMessage(c, r, fails)
  \/ \E c \in Calls, fails \in BOOLEAN : RequestInterceptorStep(c, fails)
  \/ \E c \in Calls : BeginUpstream(c)
  \/ \E c \in Calls, status \in UpstreamStatuses : UpstreamFails(c, status)
  \/ \E c \in Calls : BackoffElapsed(c)
  \/ \E c \in Calls, payload \in Payloads, sweep \in BOOLEAN :
       UpstreamSucceeds(c, payload, sweep, 0)
  \/ \E c \in Calls, sweep \in BOOLEAN : ResponseInterceptorStep(c, sweep)

SpecTokenLimit == InitTokenLimit /\ [][NextTokenLimit]_vars

\* The retries of a call: calls made one after the other by a proxy that was
\* given up to MaxBackoffRetries retries.
InitBackoff ==
  /\ \E m \in 1..MaxBackoffRetries, s \in PlainSetups : Constructed(m, Unset, s)
  /\ probe = NoProbe
  /\ ModulesLoaded

NextBackoff ==
  \/ \E c \in 1..MaxTimedCalls, r \in Requests, fails \in BOOLEAN :
       NoCallInFlight /\ SendMessage(c, r, fails)
  \/ \E c \in 1..MaxTimedCalls, r \in Requests, fails \in BOOLEAN :
       NoCallInFlight /\ PostMessage(c, r, fails)
  \/ \E c \in Calls, fails \in BOOLEAN : RequestInterceptorStep(c, fails)
  \/ \E c \in Calls : BeginUpstream(c)
  \/ \E c \in Calls, status \in UpstreamStatuses : UpstreamFails(c, status)
  \/ \E c \in Calls : BackoffElapsed(c)
  \/ \E c \in Calls, payload \in Payloads, sweep \in BOOLEAN :
       UpstreamSucceeds(c, payload, sweep, 0)
  \/ \E c \in Calls, sweep \in BOOLEAN : ResponseInterceptorStep(c, sweep)

SpecBackoff == InitBackoff /\ [][NextBackoff]_vars

\* The same, where every promise a call awaits settles (an interceptor
\* execution, an upstream attempt, p-retry's timer) and the event loop then
\* runs the call's continuation.
SpecTermination ==
  InitBackoff /\ [][NextBackoff]_vars /\ \A c \in Calls : WF_vars(StepOf(c))

\* The proxy, for the steps of the other modules.
proxy ==
  <<config, requestInterceptors, responseInterceptors, requestCount, cache,
    now, calls, opsUsed, probe>>

\* The configuration manager: process.env is set by the program's
\* surroundings, and loadEnvironment and getConfig are called in any order.
InitConfig ==
  /\ Constructed(DefaultMaxRetries, Unset, [request |-> <<>>, response |-> <<>>])
  /\ probe = NoProbe
  /\ processEnv \in Envs
  /\ configManager = NewConfigManager
  /\ db = NewDatabaseManager

\* process.env is assigned between two calls (as the tests do): once, since
\* an assignment that follows another one replaces it.
SetProcessEnv(env) ==
  /\ configManager.loads < MaxLoads
  /\ processEnv = configManager.last.env
  /\ processEnv' = env
  /\ UNCHANGED <<proxy, configManager, db>>

\* loadEnvironment(env): dotenv reads the file, then the configuration is
\* built, validated and stored.
LoadEnvironment(given, file) ==
  /\ configManager.loads < MaxLoads
  /\ processEnv' = DotenvConfig(processEnv, file)
  /\ configManager' =
       LoadEnvironmentOn(configManager, "loadEnvironment", given, processEnv')
  /\ UNCHANGED <<proxy, db>>

\* getConfig(): loadEnvironment() if nothing is stored, then this.config.
GetConfig(file) ==
  /\ configManager.loads < MaxLoads
  /\ IF configManager.config.present
     THEN /\ configManager' =
               [configManager EXCEPT
                  !.loads = @ + 1,
                  !.last = [NoConfigCall EXCEPT
                              !.op = "getConfig", !.before = configManager.config,
                              !.returned = configManager.config]]
          /\ UNCHANGED processEnv
     ELSE /\ processEnv' = DotenvConfig(processEnv, file)
          /\ configManager' =
               LET loaded == LoadEnvironmentOn(configManager, "getConfig", Unset,
                                               processEnv')
               IN [loaded EXCEPT !.last.returned = loaded.config]
  /\ UNCHANGED <<proxy, db>>

NextConfig ==
  \/ \E env \in Envs : SetProcessEnv(env)
  \/ \E given \in {Unset, "production"}, file \in EnvFiles :
       LoadEnvironment(given, file)
  \/ \E file \in EnvFiles : GetConfig(file)

SpecConfig == InitConfig /\ [][NextConfig]_vars

\* The database manager: process.env is whatever the surroundings made it.
InitDatabase ==
  /\ Constructed(DefaultMaxRetries, Unset, [request |-> <<>>, response |-> <<>>])
  /\ probe = NoProbe
  /\ processEnv \in {ValidEnv, [ValidEnv EXCEPT !.DATABASE_URL = Unset]}
  /\ configManager = NewConfigManager
  /\ db = NewDatabaseManager

\* initialize() up to its first await: nothing to do if this.pool is set;
\* otherwise getConfig(), this.pool = new Pool(...), and pool.connect().
Initialize ==
  /\ db.ops < MaxDbOps
  /\ db.init.pc \in {"idle", "returned", "threw"}
  /\ IF db.pool # 0
     THEN /\ db' = [db EXCEPT !.ops = @ + 1,
                              !.init = [NoInitialize EXCEPT !.pc = "returned",
                                                            !.pool = db.pool]]
          /\ UNCHANGED <<processEnv, configManager>>
     ELSE /\ IF configManager.config.present
             THEN UNCHANGED <<processEnv, configManager>>
             ELSE /\ processEnv' = DotenvConfig(processEnv, NoEnvFile)
                  /\ configManager' =
                       LET loaded == LoadEnvironmentOn(configManager, "getConfig",
                                                       Unset, processEnv')
                       IN [loaded EXCEPT !.last.returned = loaded.config]
          /\ db' = IF configManager'.config.present
                   THEN [db EXCEPT !.ops = @ + 1, !.created = @ + 1,
                                   !.pool = db.created + 1,
                                   !.init = [NoInitialize EXCEPT
                                               !.pc = "connecting",
                                               !.pool = db.created + 1,
                                               !.attempted = TRUE]]
                   ELSE [db EXCEPT !.ops = @ + 1,
                                   !.init = [NoInitialize EXCEPT
                                               !.pc = "threw",
                                               !.error = "Invalid configuration"]]
  /\ UNCHANGED proxy

\* await this.pool.connect() has settled: client.query('SELECT 1') follows,
\* or the catch block that logs and rethrows.
InitializeConnected(ok) ==
  /\ db.init.pc = "connecting"
  /\ db' = IF ok
           THEN [db EXCEPT !.init.pc = "querying", !.checkedOut = @ + 1]
           ELSE [db EXCEPT !.init.pc = "threw", !.init.error = "connect",
                           !.failed = @ \cup {db.init.pool}]
  /\ UNCHANGED <<proxy, processEnv, configManager>>

\* await client.query('SELECT 1') has settled: client.release() follows, or
\* the catch block, which leaves the client checked out.
InitializeQueried(ok) ==
  /\ db.init.pc = "querying"
  /\ db' = IF ok
           THEN [db EXCEPT !.init.pc = "returned", !.checkedOut = @ - 1]
           ELSE [db EXCEPT !.init.pc = "threw", !.init.error = "SELECT 1",
                           !.failed = @ \cup {db.init.pool}]
  /\ UNCHANGED <<proxy, processEnv, configManager>>

\* getPool(): this.pool, or an error if it is null.
GetPool ==
  /\ db.ops < MaxDbOps
  /\ db' = [db EXCEPT !.ops = @ + 1,
                      !.got = [threw |-> db.pool = 0, pool |-> db.pool,
                               failedPool |-> db.pool \in db.failed]]
  /\ UNCHANGED <<proxy, processEnv, configManager>>

\* transaction(callback) up to its first await: this.getPool().connect().
Transaction ==
  /\ db.ops < MaxDbOps
  /\ db.tx.pc \in {"idle", "returned", "threw"}
  /\ db' = IF db.pool = 0
           THEN [db EXCEPT !.ops = @ + 1,
                           !.tx = [NoTransaction EXCEPT
                                     !.pc = "threw",
                                     !.error = "Database not initialized"]]
           ELSE [db EXCEPT !.ops = @ + 1,
                           !.tx = [NoTransaction EXCEPT !.pc = "connecting"]]
  /\ UNCHANGED <<proxy, processEnv, configManager>>

\* await pool.connect() has settled: outside the try block a rejection leaves
\* the call at once; otherwise client.query('BEGIN') is issued.
TransactionConnected(ok) ==
  /\ db.tx.pc = "connecting"
  /\ db' = IF ok
           THEN [db EXCEPT !.checkedOut = @ + 1,
                           !.tx = [@ EXCEPT !.pc = "begin", !.acquired = TRUE,
                                            !.log = <<"BEGIN">>]]
           ELSE [db EXCEPT !.tx = [@ EXCEPT !.pc = "threw", !.error = "connect"]]
  /\ UNCHANGED <<proxy, processEnv, configManager>>

\* await client.query('BEGIN') has settled: the callback is called.
TransactionBegun(ok) ==
  /\ db.tx.pc = "begin"
  /\ db' = IF ok
           THEN [db EXCEPT !.tx.pc = "callback"]
           ELSE [db EXCEPT !.tx = CatchInTransaction(@, "BEGIN")]
  /\ UNCHANGED <<proxy, processEnv, configManager>>

\* await callback(client) has settled: client.query('COMMIT') is issued.
TransactionCallbackSettled(ok) ==
  /\ db.tx.pc = "callback"
  /\ db' = IF ok
           THEN [db EXCEPT !.tx = [@ EXCEPT !.pc = "commit", !.callback = "ok",
                                            !.log = Append(@, "COMMIT")]]
           ELSE [db EXCEPT !.tx = CatchInTransaction(
                                    [@ EXCEPT !.callback = "failed"], "callback")]
  /\ UNCHANGED <<proxy, processEnv, configManager>>

\* await client.query('COMMIT') has settled: return result, through finally.
TransactionCommitted(ok) ==
  /\ db.tx.pc = "commit"
  /\ db' = IF ok
           THEN [db EXCEPT !.checkedOut = @ - 1,
                           !.tx = FinallyInTransaction(@, "")]
           ELSE [db EXCEPT !.tx = CatchInTransaction(@, "COMMIT")]
  /\ UNCHANGED <<proxy, processEnv, configManager>>

\* await client.query('ROLLBACK') has settled: throw error, through finally;
\* a rejection of the ROLLBACK leaves the catch block in place of that throw.
TransactionRolledBack(ok) ==
  /\ db.tx.pc = "rollback"
  /\ db' = [db EXCEPT !.checkedOut = @ - 1,
                      !.tx = FinallyInTransaction(
                               @, IF ok THEN db.tx.caught ELSE "ROLLBACK")]
  /\ UNCHANGED <<proxy, processEnv, configManager>>

\* shutdown() up to its await: nothing to do while shutting down or without a
\* pool; otherwise isShuttingDown = true and pool.end().
Shutdown ==
  /\ db.ops < MaxDbOps
  /\ db' = IF db.isShuttingDown \/ db.pool = 0
           THEN [db EXCEPT !.ops = @ + 1]
           ELSE [db EXCEPT !.ops = @ + 1, !.isShuttingDown = TRUE,
                           !.ending = TRUE]
  /\ UNCHANGED <<proxy, processEnv, configManager>>

\* await this.pool.end() has settled, either way: the finally block.
ShutdownEnded ==
  /\ db.ending
  /\ db' = [db EXCEPT !.pool = 0, !.isShuttingDown = FALSE, !.ending = FALSE]
  /\ UNCHANGED <<proxy, processEnv, configManager>>

NextDatabase ==
  \/ Initialize
  \/ \E ok \in BOOLEAN : InitializeConnected(ok)
  \/ \E ok \in BOOLEAN : InitializeQueried(ok)
  \/ GetPool
  \/ Transaction
  \/ \E ok \in BOOLEAN : TransactionConnected(ok)
  \/ \E ok \in BOOLEAN : TransactionBegun(ok)
  \/ \E ok \in BOOLEAN : TransactionCallbackSettled(ok)
  \/ \E ok \in BOOLEAN : TransactionCommitted(ok)
  \/ \E ok \in BOOLEAN : TransactionRolledBack(ok)
  \/ Shutdown
  \/ ShutdownEnded

SpecDatabase == InitDatabase /\ [][NextDatabase]_vars

\* calculateCost on its own: the usage objects it is applied to.
TokenCounts == {0, 1, 2, 999, 1000, 500000, 1000000, 2000000}

Usages == {NoUsage} \cup {Usage(i, o) : i \in TokenCounts, o \in TokenCounts}

InitCost ==
  /\ Constructed(DefaultMaxRetries, Unset, [request |-> <<>>, response |-> <<>>])
  /\ \E u \in Usages : probe = [done |-> FALSE, usage |-> u, cost |-> 0]
  /\ ModulesLoaded

CalculateCost ==
  /\ ~probe.done
  /\ probe' = [probe EXCEPT !.done = TRUE, !.cost = calculateCost(probe.usage)]
  /\ UNCHANGED <<aside, config, requestInterceptors, responseInterceptors, requestCount,
                 cache, now, calls, opsUsed>>

NextCost == CalculateCost

SpecCost == InitCost /\ [][NextCost]_vars

\* getCacheKey on its own: the pairs of requests it is applied to.
KeyRequests ==
  { [messages |-> ms, model |-> m, max_tokens |-> 0, temperature |-> t,
     system |-> s, metadata |-> md] :
      ms \in { <<UserMessage("hi")>>, <<UserMessageContentFirst("hi")>>,
               <<UserMessage("bye")>> },
      m \in {Unset, "claude-3-opus-20240229"},
      t \in {Unset, "0.5", "NaN", "Infinity"},
      s \in {Unset, "be brief"},
      md \in {"m1", "m2"} }

NoKey == [literal |-> "", json |-> NoJson]

InitKey ==
  /\ Constructed(DefaultMaxRetries, Unset, [request |-> <<>>, response |-> <<>>])
  /\ \E r1 \in KeyRequests, r2 \in KeyRequests :
       probe = [done |-> FALSE, r1 |-> r1, r2 |-> r2, key1 |-> NoKey, key2 |-> NoKey]
  /\ ModulesLoaded

GetCacheKeys ==
  /\ ~probe.done
  /\ probe' = [probe EXCEPT !.done = TRUE, !.key1 = getCacheKey(probe.r1),
                            !.key2 = getCacheKey(probe.r2)]
  /\ UNCHANGED <<aside, config, requestInterceptors, responseInterceptors, requestCount,
                 cache, now, calls, opsUsed>>

NextKey == GetCacheKeys

SpecKey == InitKey /\ [][NextKey]_vars

\* ================================================================== claims
\* The ProxyRequest invariant of the data model: messages is non-empty and a
\* token ceiling, if present, is positive.
WellFormed(r) == r.messages # <<>> /\ r.max_tokens >= 0

Started(c) == calls[c].pc \notin {"idle", "http400"}

Finished(c) == calls[c].pc \in {"returned", "failed"}

InFlight(c) == Started(c) /\ ~Finished(c)

\* The names in a log of interceptor executions.
RanNames(log) == {log[k].name : k \in 1..Len(log)}

Range(s) == {s[k] : k \in 1..Len(s)}

\* C1: a sendMessage call whose request violates the ProxyRequest invariants
\* (an empty messages list) never invokes the upstream client and does not
\* return a response.
C1_InvalidRequestNeverReachesUpstream ==
  \A c \in Calls :
    (Started(c) /\ ~WellFormed(calls[c].request)) =>
      (calls[c].attempts = 0 /\ calls[c].pc # "returned")

\* C2: no call makes more than maxRetries + 1 upstream attempts, and a call
\* that failed on a retryable status (429, 500, 502, 503, 504) made exactly
\* maxRetries + 1 attempts.
C2_RetriedUpToMaxRetries ==
  \A c \in Calls :
    /\ calls[c].attempts <= config.maxRetries + 1
    /\ (calls[c].pc = "failed" /\ calls[c].lastStatus \in {429, 500, 502, 503, 504})
         => calls[c].attempts = config.maxRetries + 1

\* C2 witness: a call was retried and failed after maxRetries + 1 attempts
\* that all got a retryable status, the last one 429.
C2_Witness ==
  \E c \in Calls :
    /\ calls[c].pc = "failed"
    /\ calls[c].lastStatus = 429
    /\ calls[c].attempts = config.maxRetries + 1
    /\ calls[c].attempts >= 2

\* C3: after an upstream failure whose status is outside {429, 500, 502, 503,
\* 504}, or that has no status, the call has failed: it is neither waiting to
\* retry nor in another attempt.
C3_FatalFailureEndsCall ==
  \A c \in Calls :
    (calls[c].lastStatus # NoFailure
       /\ calls[c].lastStatus \notin {429, 500, 502, 503, 504})
      => calls[c].pc = "failed"

\* C3 witness: a call failed on its first attempt with status 400 although
\* retries were left.
C3_Witness ==
  \E c \in Calls :
    /\ calls[c].pc = "failed"
    /\ calls[c].lastStatus = 400
    /\ calls[c].attempts = 1
    /\ config.maxRetries >= 1

\* C4: with cache-check and cache-store registered, a call started after a
\* call with the same messages, model, temperature and system has returned,
\* and before the TTL has passed, makes no upstream call and returns a
\* response with cacheHit = true.
C4_SecondIdenticalCallIsCacheHit ==
  \A c1 \in Calls, c2 \in Calls :
    ( /\ c1 \in calls[c2].prior
      /\ "cache-store" \in RanNames(calls[c1].ranResp)
      /\ "cache-check" \in RanNames(calls[c2].ranReq)
      /\ getCacheKey(calls[c1].request) = getCacheKey(calls[c2].request)
      /\ calls[c2].startTime < calls[c1].endTime + TtlTicks )
    => /\ calls[c2].attempts = 0
       /\ calls[c2].pc \in {"reqInt", "returned"}
       /\ calls[c2].pc = "returned" => calls[c2].response.proxyMetrics.cacheHit

\* C6: the failure of an interceptor marked optional does not fail the call.
C6_OptionalFailureDoesNotFailCall ==
  \A c \in Calls :
    \A k \in 1..Len(calls[c].ranReq) :
      (calls[c].ranReq[k].optional /\ ~calls[c].ranReq[k].ok)
        => calls[c].pc # "failed"

\* C7: when a non-optional request interceptor has failed, it is the last
\* request interceptor the call executed, the call made no upstream attempt,
\* ran no response interceptor and has failed; when a non-optional response
\* interceptor has failed, it is the last response interceptor the call
\* executed and the call has failed.
C7_FailureAbortsPipeline ==
  \A c \in Calls :
    /\ \A k \in 1..Len(calls[c].ranReq) :
         (~calls[c].ranReq[k].ok /\ ~calls[c].ranReq[k].optional)
           => /\ k = Len(calls[c].ranReq)
              /\ calls[c].attempts = 0
              /\ calls[c].ranResp = <<>>
              /\ calls[c].pc = "failed"
    /\ \A k \in 1..Len(calls[c].ranResp) :
         (~calls[c].ranResp[k].ok /\ ~calls[c].ranResp[k].optional)
           => /\ k = Len(calls[c].ranResp)
              /\ calls[c].pc = "failed"

\* C7 witness: a call failed in its first request interceptor, a non-optional
\* one, while a second request interceptor was registered behind it.
C7_Witness ==
  \E c \in Calls :
    /\ calls[c].pc = "failed"
    /\ Len(calls[c].regReq0) = 2
    /\ Len(calls[c].ranReq) = 1
    /\ ~calls[c].ranReq[1].ok
    /\ ~calls[c].ranReq[1].optional
    /\ calls[c].error.message = "interceptor-failed"

\* C8: a call that returned has executed every request and response
\* interceptor that was registered when it started, whatever was removed
\* while it was in flight.
C8_RemovalDoesNotAffectInFlightCall ==
  \A c \in Calls :
    calls[c].pc = "returned" =>
      /\ Range(calls[c].regReq0) \subseteq RanNames(calls[c].ranReq)
      /\ Range(calls[c].regResp0) \subseteq RanNames(calls[c].ranResp)

\* C9: a call executes only interceptors that were registered when it
\* started, whatever was added while it was in flight.
C9_AddDoesNotAffectInFlightCall ==
  \A c \in Calls :
    /\ RanNames(calls[c].ranReq) \subseteq Range(calls[c].regReq0)
    /\ RanNames(calls[c].ranResp) \subseteq Range(calls[c].regResp0)

\* C10: the calls started so far have pairwise distinct request ids, their
\* counters increase in the order the calls started, and the counter of the
\* proxy equals the number of calls started.
C10_DistinctIncreasingRequestIds ==
  /\ \A c \in Calls, d \in Calls :
       (Started(c) /\ Started(d) /\ c < d)
         => /\ calls[c].requestId # calls[d].requestId
            /\ calls[c].requestId.n < calls[d].requestId.n
  /\ requestCount = Cardinality({c \in Calls : Started(c)})

\* C10 witness: two calls in flight at the same time, the second started while
\* the first was waiting for the upstream.
C10_Witness ==
  \E c \in Calls, d \in Calls :
    /\ c < d
    /\ calls[c].pc = "upstream"
    /\ calls[d].pc = "upstream"
    /\ calls[c].requestId.n + 1 = calls[d].requestId.n

\* The members of a response that come from the upstream payload.
PayloadOf(response) ==
  [id |-> response.id, content |-> response.content,
   stop_reason |-> response.stop_reason, usage |-> response.usage]

\* C11: a call with a well-formed request and no interceptor registered whose
\* first upstream attempt succeeded has returned, has made exactly one
\* upstream attempt, and the response it returned holds the payload the
\* upstream resolved with.
C11_OneUpstreamCallPayloadReturned ==
  \A c \in Calls :
    ( /\ WellFormed(calls[c].request)
      /\ calls[c].regReq0 = <<>> /\ calls[c].regResp0 = <<>>
      /\ calls[c].upstream # NoPayload
      /\ calls[c].lastStatus = NoFailure /\ calls[c].attempts <= 1 )
    => /\ calls[c].pc = "returned"
       /\ calls[c].attempts = 1
       /\ PayloadOf(calls[c].response) = calls[c].upstream

\* C11 witness: such a call has returned the payload msg_1.
C11_Witness ==
  \E c \in Calls :
    /\ calls[c].pc = "returned"
    /\ WellFormed(calls[c].request)
    /\ calls[c].regReq0 = <<>> /\ calls[c].regResp0 = <<>>
    /\ calls[c].attempts = 1
    /\ calls[c].upstream.id = "msg_1"
    /\ calls[c].response.id = "msg_1"

\* C12: in every returned response that has metrics, overheadMs equals (end
\* time - start time) - upstream latency, where the latency is the time from
\* the start of the retry block to its end, and neither is negative.
C12_OverheadIsElapsedMinusLatency ==
  \A c \in Calls :
    (calls[c].pc = "returned" /\ calls[c].response.proxyMetrics.present)
    => LET m == calls[c].response.proxyMetrics
       IN /\ m.latencyMs = calls[c].apiEndTime - calls[c].apiStartTime
          /\ m.overheadMs = (calls[c].endTime - calls[c].startTime) - m.latencyMs
          /\ m.latencyMs >= 0
          /\ m.overheadMs >= 0

\* C12 witness: a call that ran a request interceptor and was retried has
\* returned with a positive latency and a positive overhead.
C12_Witness ==
  \E c \in Calls :
    /\ calls[c].pc = "returned"
    /\ calls[c].response.proxyMetrics.present
    /\ Len(calls[c].ranReq) >= 1
    /\ calls[c].attempts >= 2
    /\ calls[c].response.proxyMetrics.latencyMs >= 1
    /\ calls[c].response.proxyMetrics.overheadMs >= 1

\* C13: the cost of a usage of i input and o output tokens is
\* (i * 3 + o * 15) / 1,000,000, the sum of the cost of the input tokens alone
\* and of the output tokens alone; 1,000,000 input and 1,000,000 output tokens
\* cost 18; without usage data the cost is 0.  (probe.cost is in millionths.)
C13_CostPricesInputAndOutput ==
  probe.done =>
    LET i == probe.usage.input_tokens
        o == probe.usage.output_tokens
    IN IF probe.usage.present
       THEN /\ probe.cost = i * 3 + o * 15
            /\ probe.cost = calculateCost(Usage(i, 0)) + calculateCost(Usage(0, o))
            /\ (i = 1000000 /\ o = 1000000) => probe.cost = 18 * 1000000
       ELSE probe.cost = 0

\* C13 witness: the cost of 1,000,000 input and 1,000,000 output tokens has
\* been computed and is 18.
C13_Witness ==
  /\ probe.done
  /\ probe.usage = Usage(1000000, 1000000)
  /\ probe.cost = 18 * TokensPerMillion

\* C14: a call whose model has no prices returns a response whose metrics
\* have cost 0.
C14_UnpricedModelCostsZero ==
  \A c \in Calls :
    ( /\ calls[c].pc = "returned"
      /\ calls[c].response.proxyMetrics.present
      /\ UpstreamModel(calls[c].cur, config) \notin PricedModels )
    => calls[c].response.proxyMetrics.cost = 0

\* The request a call's request pipeline has produced so far.
Intercepted(c) ==
  IF calls[c].ranReq = <<>>
  THEN calls[c].request
  ELSE calls[c].ranReq[Len(calls[c].ranReq)].output

\* C15: in every call no request interceptor is executed twice, every
\* execution of a request interceptor took place before the first upstream
\* attempt, and every upstream attempt, the first and the retries, was built
\* from the same request, the one the request pipeline produced.
C15_RequestInterceptorsRunOnceBeforeRetries ==
  \A c \in Calls :
    /\ \A j \in 1..Len(calls[c].ranReq), k \in 1..Len(calls[c].ranReq) :
         j # k => calls[c].ranReq[j].name # calls[c].ranReq[k].name
    /\ \A k \in 1..Len(calls[c].ranReq) : calls[c].ranReq[k].attempts = 0
    /\ Len(calls[c].sent) = calls[c].attempts
    /\ \A k \in 1..Len(calls[c].sent) :
         /\ calls[c].sent[k] = calls[c].sent[1]
         /\ calls[c].sent[k].from = Intercepted(c)

\* C15 witness: a call that ran two request interceptors is in its second
\* upstream attempt.
C15_Witness ==
  \E c \in Calls :
    /\ calls[c].pc = "upstream"
    /\ calls[c].attempts = 2
    /\ Len(calls[c].ranReq) = 2
    /\ calls[c].sent[2].from.metadata = "custom-optional"

\* C16: the request interceptors a call has executed are, in this order, the
\* first ones registered; the first was called with the request of the call
\* and each later one with what the one before it returned.  The same holds
\* of the response interceptors, the first of which was called with the
\* payload of the upstream.
C16_InterceptorsRunInRegistrationOrder ==
  \A c \in Calls :
    /\ Len(calls[c].ranReq) <= Len(calls[c].regReq0)
    /\ \A k \in 1..Len(calls[c].ranReq) :
         /\ calls[c].ranReq[k].name = calls[c].regReq0[k]
         /\ calls[c].ranReq[k].input =
              IF k = 1 THEN calls[c].request ELSE calls[c].ranReq[k - 1].output
    /\ Len(calls[c].ranResp) <= Len(calls[c].regResp0)
    /\ \A k \in 1..Len(calls[c].ranResp) :
         /\ calls[c].ranResp[k].name = calls[c].regResp0[k]
         /\ IF k = 1
            THEN PayloadOf(calls[c].ranResp[k].input) = calls[c].upstream
            ELSE calls[c].ranResp[k].input = calls[c].ranResp[k - 1].output

\* C16 witness: a call has run its two request and its two response
\* interceptors and returned while another call, started before it, is still
\* waiting for the upstream.
C16_Witness ==
  \E c \in Calls, d \in Calls :
    /\ d < c
    /\ calls[d].pc = "upstream"
    /\ calls[c].pc = "returned"
    /\ Len(calls[c].ranReq) = 2
    /\ Len(calls[c].ranResp) = 2
    /\ calls[c].ranReq[2].input.metadata = "custom"

\* C17: the error of every failed call carries the request id generated for
\* that call.
C17_FailureCarriesRequestId ==
  \A c \in Calls :
    calls[c].pc = "failed" =>
      /\ calls[c].requestId # NoId
      /\ calls[c].error.requestId = calls[c].requestId

\* C17 witness: of two calls the one started first has failed in the
\* upstream call and the one started second in a request interceptor; each
\* error carries the id of its own call.
C17_Witness ==
  \E c \in Calls, d \in Calls :
    /\ c < d
    /\ calls[c].pc = "failed" /\ calls[c].error.message = "upstream-error"
    /\ calls[d].pc = "failed" /\ calls[d].error.message = "interceptor-failed"
    /\ calls[d].ranReq[1].input = calls[d].request
    /\ calls[c].error.requestId.n = 1
    /\ calls[d].error.requestId.n = 2

\* C18: the error of a call that failed because its retries were used up has
\* the status code of the last upstream failure, is marked retryable, and
\* carries the request id of the call and the number of retries performed.
C18_ExhaustedRetriesSurfaceLastError ==
  \A c \in Calls :
    (calls[c].pc = "failed" /\ calls[c].lastStatus \in RetryableStatusCodes)
    => /\ calls[c].error.statusCode = calls[c].lastStatus
       /\ calls[c].error.retryable = "true"
       /\ calls[c].error.requestId = calls[c].requestId
       /\ calls[c].error.retryCount = calls[c].attempts - 1

\* C19: the error of a call that failed on a non-retryable upstream failure
\* is marked not retryable, has the status code of that failure (if the
\* failure had one) and carries the request id of the call.
C19_FatalErrorKeepsStatusCode ==
  \A c \in Calls :
    ( /\ calls[c].pc = "failed"
      /\ calls[c].lastStatus # NoFailure
      /\ calls[c].lastStatus \notin RetryableStatusCodes )
    => /\ calls[c].error.retryable = "false"
       /\ calls[c].error.statusCode = calls[c].lastStatus
       /\ calls[c].error.requestId = calls[c].requestId

\* C20: the retryCount in the metrics of a returned response is the number
\* of upstream attempts of the call that failed and were retried.
C20_RetryCountCountsRetries ==
  \A c \in Calls :
    (calls[c].pc = "returned" /\ calls[c].response.proxyMetrics.present)
    => calls[c].response.proxyMetrics.retryCount = calls[c].attempts - 1

\* Two objects with the same members, whatever the order they were written in.
SameMembers(a, b) == Range(a) = Range(b)

\* Two requests that agree on messages, model, temperature and system.
Agree(r1, r2) ==
  /\ Len(r1.messages) = Len(r2.messages)
  /\ \A k \in 1..Len(r1.messages) : SameMembers(r1.messages[k], r2.messages[k])
  /\ r1.model = r2.model
  /\ r1.temperature = r2.temperature
  /\ r1.system = r2.system

\* C21: the cache key is a function of messages, model, temperature and
\* system only: two requests that agree on the four fields get the same key
\* whatever their metadata, and two requests that differ in one of the four
\* get different keys.
C21_KeyOfTheFourFields ==
  probe.done => (Agree(probe.r1, probe.r2) <=> probe.key1 = probe.key2)

\* C21 as the code has it: two requests with the same four fields, the
\* members of every message written in the same order, get the same key
\* whatever their metadata; two requests with the same key have the same
\* messages (member by member), model and system, and the same temperature or
\* two temperatures that are not finite numbers.
C21_KeyOfTheSerialisedFields ==
  probe.done =>
    LET r1 == probe.r1
        r2 == probe.r2
    IN /\ ( /\ r1.messages = r2.messages
            /\ r1.model = r2.model
            /\ r1.temperature = r2.temperature
            /\ r1.system = r2.system ) => probe.key1 = probe.key2
       /\ probe.key1 = probe.key2 =>
            /\ r1.messages = r2.messages
            /\ r1.model = r2.model
            /\ r1.system = r2.system
            /\ \/ r1.temperature = r2.temperature
               \/ {r1.temperature, r2.temperature} \subseteq NonFiniteNumbers

\* Two requests that differ in their metadata only were given the same key.
C21_Witness ==
  /\ probe.done
  /\ probe.r1.metadata # probe.r2.metadata
  /\ [probe.r1 EXCEPT !.metadata = Unset] = [probe.r2 EXCEPT !.metadata = Unset]
  /\ probe.key1 = probe.key2
  /\ probe.key1 # NoKey

\* C22: cache-store stores a cacheable response under the key cache-check
\* derived for the request that produced it: while the entry cannot have
\* expired, a lookup with that key finds an entry, and a lookup with the key
\* of a different request does not return that response.
C22_StoredUnderLookupKey ==
  \A c \in Calls :
    \A j \in 1..Len(calls[c].ranReq), k \in 1..Len(calls[c].ranResp) :
      LET looked == calls[c].ranReq[j]
          stored == calls[c].ranResp[k]
          key == getCacheKey(looked.input)
      IN ( /\ looked.name = "cache-check"
           /\ stored.name = "cache-store"
           /\ stored.ok
           /\ stored.input.stop_reason # "stop_sequence"
           /\ now <= calls[c].endTime + TtlTicks )
         => /\ key \in DOMAIN cache
            /\ \A r \in Requests \cup RequestsWithModel :
                 LET other == getCacheKey(r)
                 IN (other # key /\ other \in DOMAIN cache)
                      => cache[other].response # stored.input

\* The calls that returned a response with its metrics.
Measured == {c \in Calls : calls[c].pc = "returned"
                            /\ calls[c].response.proxyMetrics.present}

RECURSIVE SumOverheads(_)
SumOverheads(cs) ==
  IF cs = {} THEN 0
  ELSE LET c == CHOOSE x \in cs : TRUE
       IN calls[c].response.proxyMetrics.overheadMs + SumOverheads(cs \ {c})

\* C25: getMetrics reports the calls of the proxy so far: totalRequests is the
\* number of sendMessage calls started, and averageOverheadMs is the average
\* of the overheads recorded by the calls completed so far.
C25_MetricsReflectTheCalls ==
  LET metrics == getMetrics(requestCount)
  IN /\ metrics.totalRequests = Cardinality({c \in Calls : Started(c)})
     /\ metrics.averageOverheadMs * Cardinality(Measured) = SumOverheads(Measured)

\* C26: no call blocks another: whatever the other calls are doing (suspended
\* in an upstream attempt or in a backoff wait), a call in flight can take its
\* next step and a new call can start; no set of calls in flight is stuck.
C26_NoCallBlocksAnother ==
  \A c \in Calls :
    /\ InFlight(c) => ENABLED StepOf(c)
    /\ (calls[c].pc = "idle" /\ \A d \in Calls : d < c => calls[d].pc # "idle")
         => ENABLED (\E r \in Requests : SendMessage(c, r, FALSE))

\* A call started after another one has returned while the earlier call is
\* still suspended in its upstream attempt or in a backoff wait.
C26_Witness ==
  \E c \in Calls, d \in Calls :
    /\ calls[c].pc \in {"upstream", "backoff"}
    /\ calls[d].pc = "returned"
    /\ calls[d].requestId.n > calls[c].requestId.n

\* The stages of a call, in order: received, request-intercepted, forwarding
\* or retrying, response-intercepted, and completed or failed.
StageRank(pc) ==
  CASE pc = "idle" -> 0
    [] pc = "reqInt" -> 1
    [] pc = "forward" -> 2
    [] pc \in {"upstream", "backoff"} -> 3
    [] pc = "respInt" -> 4
    [] OTHER -> 5

\* C27: a call goes through its stages in order, or fails: the request
\* interceptors run before the first upstream attempt, no response interceptor
\* runs before an upstream attempt has succeeded, no upstream attempt is made
\* after a response interceptor has run, and a call that has completed or
\* failed takes no further step.
C27_StagesInOrder ==
  /\ [](\A c \in Calls :
          /\ \A k \in 1..Len(calls[c].ranReq) : calls[c].ranReq[k].attempts = 0
          /\ calls[c].ranResp # <<>> =>
               /\ calls[c].upstream # NoPayload
               /\ calls[c].attempts >= 1
               /\ \A k \in 1..Len(calls[c].ranResp) :
                    calls[c].ranResp[k].attempts = calls[c].attempts
          /\ calls[c].pc = "returned" =>
               (calls[c].attempts >= 1 /\ calls[c].upstream # NoPayload))
  /\ [][\A c \in Calls :
          /\ StageRank(calls'[c].pc) >= StageRank(calls[c].pc)
          /\ calls[c].pc \in {"respInt", "returned", "failed"} =>
               calls'[c].attempts = calls[c].attempts
          /\ Finished(c) => calls'[c] = calls[c]]_vars

\* A call that went through every stage: it ran its request interceptors,
\* failed an attempt, retried, ran its response interceptors and returned.
C27_Witness ==
  \E c \in Calls :
    /\ calls[c].pc = "returned"
    /\ calls[c].ranReq # <<>>
    /\ calls[c].attempts >= 2
    /\ calls[c].ranResp # <<>>

\* C28: every response that sendMessage returns carries a ProxyMetrics
\* record, and every response interceptor was handed the response with that
\* record attached.
C28_ResponseCarriesMetrics ==
  \A c \in Calls :
    /\ calls[c].pc = "returned" => calls[c].response.proxyMetrics.present
    /\ \A k \in 1..Len(calls[c].ranResp) :
         calls[c].ranResp[k].input.proxyMetrics.present

\* C29: every response that sendMessage returns has an id and a non-empty
\* content: a call whose upstream payload has no id or no content fails.
C29_ReturnedResponseIsValid ==
  \A c \in Calls :
    /\ calls[c].pc = "returned" =>
         (calls[c].response.id # "" /\ calls[c].response.content # <<>>)
    /\ (Finished(c) /\ calls[c].upstream # NoPayload
          /\ (calls[c].upstream.id = "" \/ calls[c].upstream.content = <<>>))
         => calls[c].pc = "failed"

C31_EveryCallEnds ==
  /\ [](\A c \in Calls : calls[c].attempts <= config.maxRetries + 1)
  /\ \A c \in Calls : Started(c) ~> Finished(c)

\* A call ended after it had used up its retries.
C31_Witness ==
  \E c \in Calls :
    /\ calls[c].pc = "failed"
    /\ calls[c].attempts = config.maxRetries + 1
    /\ calls[c].attempts >= 2
    /\ calls[c].ranReq # <<>>

\* C32: cache-store returns the response it was given unchanged; given a
\* response whose stop_reason is 'stop_sequence' it leaves the cache as it is,
\* and given any other response it stores it with expiry = now + TTL.
C32_CacheStoreStoresCacheable ==
  [][\A c \in Calls :
       LET before == calls[c].ranResp
           after == calls'[c].ranResp
           ran == after[Len(after)]
       IN (Len(after) = Len(before) + 1 /\ ran.name = "cache-store")
            => /\ ran.ok
               /\ ran.output = ran.input
               /\ IF ran.input.stop_reason = "stop_sequence"
                  THEN cache' = cache
                  ELSE \E key \in DOMAIN cache' :
                         cache'[key] = [response |-> ran.input,
                                        expiry |-> now' + TtlTicks]]_vars

\* cache-store was given a response that ended on a stop sequence, returned
\* it, and the cache holds no entry.
C32_Witness ==
  \E c \in Calls :
    /\ calls[c].pc = "returned"
    /\ calls[c].response.stop_reason = "stop_sequence"
    /\ \E k \in 1..Len(calls[c].ranResp) :
         /\ calls[c].ranResp[k].name = "cache-store"
         /\ calls[c].ranResp[k].output = calls[c].response
    /\ cache = EmptyCache

RequiredSettingBad(env) ==
  \/ env.DATABASE_URL \in {Unset, "localhost"}
  \/ env.CLAUDE_API_KEY = Unset
  \/ env.JWT_SECRET \in {Unset, "short"}

\* A stored configuration that passes every check of the schema.
ValidConfig(c) ==
  /\ c.present
  /\ c.env \in {"development", "staging", "production", "test"}
  /\ c.port >= 1 /\ c.port <= 65535
  /\ c.database.url = "postgresql://localhost:5432/test"
  /\ c.claude.apiKey # ""
  /\ c.claude.maxRetries >= 0
  /\ c.security.jwtSecret = "test-secret-key-that-is-32-chars!"

\* C34: loadEnvironment throws 'Invalid configuration' when a required
\* setting is missing or invalid; a load that threw left the stored
\* configuration as it was, getConfig still returns the configuration loaded
\* before, and the stored configuration is never one that fails the schema.
C34_FailedLoadKeepsConfig ==
  LET last == configManager.last
  IN /\ (last.loaded /\ RequiredSettingBad(last.env))
          => (last.threw /\ last.message = "Invalid configuration")
     /\ last.threw => configManager.config = last.before
     /\ (last.op = "getConfig" /\ ~last.threw)
          => (last.returned = configManager.config /\ ValidConfig(last.returned))
     /\ configManager.config.present => ValidConfig(configManager.config)

\* A valid configuration was loaded, then a load failed on a missing
\* setting: the configuration loaded first is still the stored one.
C34_Witness ==
  /\ configManager.last.op = "loadEnvironment"
  /\ configManager.last.threw
  /\ RequiredSettingBad(configManager.last.env)
  /\ configManager.last.before.present
  /\ configManager.config = configManager.last.before

\* C35: a proxy configured with maxRetries = 0 makes no retry: none of its
\* calls makes more than one upstream attempt.
C35_ZeroRetriesMeansOneAttempt ==
  \A c \in Calls : config.givenMaxRetries = 0 => calls[c].attempts <= 1

\* C36: with a token-limit interceptor of ceiling L registered, no upstream
\* attempt is sent a max_tokens above L, whether the request set max_tokens or
\* left it unset.
C36_MaxTokensWithinCeiling ==
  \A c \in Calls :
    "token-limit" \in RanNames(calls[c].ranReq) =>
      \A k \in 1..Len(calls[c].sent) :
        calls[c].sent[k].params.max_tokens <= TokenCeiling

\* C38: a call that ended in failure has written no cache entry: none of the
\* response interceptors it ran was cache-store handed a response that
\* cache-store stores, whatever the order of registration.
C38_FailedCallWroteNoCache ==
  \A c \in Calls :
    calls[c].pc = "failed" =>
      \A k \in 1..Len(calls[c].ranResp) :
        calls[c].ranResp[k].name = "cache-store" =>
          calls[c].ranResp[k].input.stop_reason = "stop_sequence"

\* C39: a transaction that got a client issued BEGIN first, issued COMMIT if
\* and only if the callback succeeded, and otherwise ended with ROLLBACK and
\* threw the error that sent it there; the client was released exactly once.
C39_TransactionProtocol ==
  (db.tx.pc \in {"returned", "threw"} /\ db.tx.acquired) =>
    /\ db.tx.log[1] = "BEGIN"
    /\ ("COMMIT" \in Range(db.tx.log)) <=> (db.tx.callback = "ok")
    /\ db.tx.callback # "ok" =>
         /\ db.tx.pc = "threw"
         /\ db.tx.log[Len(db.tx.log)] = "ROLLBACK"
         /\ db.tx.error = db.tx.caught
    /\ db.tx.released = 1

\* C40: after a failed connection test the manager is uninitialized: no
\* initialize() returns without attempting a connection because it found the
\* pool of a failed test, and getPool() returns no such pool.
C40_FailedInitializeLeavesUninitialized ==
  /\ (db.init.pc = "returned" /\ ~db.init.attempted) =>
       db.init.pool \notin db.failed
  /\ ~db.got.failedPool

====
